---- MODULE Spec2Model ----
(***************************************************************************)
(* A state-machine model of slac/algo.py (class SlacAlgorithm).            *)
(*                                                                         *)
(* Network parameters are floating-point tensors in the program; here each *)
(* parameter group holds one value of the finite ring 0..NumVals-1, an     *)
(* optimizer step moves a value by a non-zero amount in the direction of   *)
(* the (data dependent, hence nondeterministic) gradient, and the Polyak   *)
(* average is computed in integer arithmetic with tau = tau/TauDen.        *)
(* Collaborators that the class only calls (environment, replay buffer,    *)
(* summary writer, history object) are modelled by what the class hands    *)
(* them: `trace` holds, in program order, the calls and reads of the       *)
(* operation that ran last.                                                *)
(***************************************************************************)
EXTENDS Integers, Sequences, FiniteSets, TLC

\* ------------------------------------------------------------------ bounds
MaxCalls == 2
NumVals == 3
TauDen == 2
MaxEpisodeSteps == 2
NumSequences == 2

\* ------------------------------------------------------ program constants
LogInterval == 1000

\* ------------------------------------------------------------ value sets
LatentGroups == {"encoder", "dynamics", "decoder", "reward"}
Groups == LatentGroups \cup {"actor", "critic", "critic_target", "log_alpha"}
Vals == 0 .. (NumVals - 1)
GradDirs == {-1, 1}
Obs == {"x0", "x1"}
Actions == {"a0", "a1"}
Rewards == {0, 1}
\* (mean, std) pairs a Gaussian head can return.
Gaussians == {[mean |-> 0, std |-> 1], [mean |-> 1, std |-> 2]}
\* The first observation of the first episode, which the caller puts into
\* the history object before its first call of step.
FirstObs == "x0"
LatentTags == {"loss/kld", "loss/reward", "loss/image"}
SacTags == {"loss/critic", "loss/actor", "loss/alpha", "stats/alpha", "stats/entropy"}
Tags == LatentTags \cup SacTags
Files == {"encoder.pth", "latent.pth", "actor.pth", "critic.pth"}

VARIABLES
    params,                 \* value of every parameter group
    has_grad,               \* groups whose .grad currently holds a gradient
    alpha,                  \* self.alpha
    tau,                    \* self.tau, as a numerator over TauDen
    learning_steps_sac,     \* self.learning_steps_sac
    learning_steps_latent,  \* self.learning_steps_latent
    writer,                 \* per tag, the step indices given to add_scalar
    env,                    \* _max_episode_steps and the counts of step()/reset()
    buffer,                 \* counts of the calls made on self.buffer
    input,                  \* the rolling history object handed to step/explore
    t,                      \* the caller's step counter (step's last return value)
    disk,                   \* files written by save_model
    op,                     \* name of the operation that ran last
    trace,                  \* calls and reads of that operation, in program order
    ncalls                  \* number of operations run so far

vars == <<params, has_grad, alpha, tau, learning_steps_sac, learning_steps_latent,
          writer, env, buffer, input, t, disk, op, trace, ncalls>>

\* The whole state as one record, so that a handler is the composition of
\* its statements.
Cur ==
    [params |-> params, has_grad |-> has_grad, alpha |-> alpha, tau |-> tau,
     learning_steps_sac |-> learning_steps_sac,
     learning_steps_latent |-> learning_steps_latent,
     writer |-> writer, env |-> env, buffer |-> buffer, input |-> input,
     t |-> t, disk |-> disk, op |-> op, trace |-> trace, ncalls |-> ncalls]

Commit(w) ==
    /\ params' = w.params
    /\ has_grad' = w.has_grad
    /\ alpha' = w.alpha
    /\ tau' = w.tau
    /\ learning_steps_sac' = w.learning_steps_sac
    /\ learning_steps_latent' = w.learning_steps_latent
    /\ writer' = w.writer
    /\ env' = w.env
    /\ buffer' = w.buffer
    /\ input' = w.input
    /\ t' = w.t
    /\ disk' = w.disk
    /\ op' = w.op
    /\ trace' = w.trace
    /\ ncalls' = w.ncalls

Begin(name) == [Cur EXCEPT !.op = name, !.trace = <<>>, !.ncalls = @ + 1]

Emit(w, e) == [w EXCEPT !.trace = Append(@, e)]

\* ------------------------------------------------------------- helpers

\* torch.exp on the model's values: exp(0) = 1, strictly increasing.
Exp(x) == 2 ^ x

\* slac.utils.soft_update: target <- (1 - tau) * target + tau * source.
soft_update(target, source, tauNum) ==
    ((TauDen - tauNum) * target + tauNum * source) \div TauDen

\* The parameters each Adam instance was built over.
OptimParams(o) ==
    CASE o = "optim_actor" -> {"actor"}
      [] o = "optim_critic" -> {"critic"}
      [] o = "optim_alpha" -> {"log_alpha"}
      [] o = "optim_latent" -> LatentGroups

\* grad_false(self.critic_target): every other group requires grad.
RequiresGrad == Groups \ {"critic_target"}

\* The parameter groups each loss is differentiable in (what was computed
\* outside a torch.no_grad() block and not detached).
LossLatentDeps == LatentGroups
LossCriticDeps == {"critic"}
LossActorDeps == {"actor", "critic"}
LossAlphaDeps == {"log_alpha"}

zero_grad(w, o) == [w EXCEPT !.has_grad = @ \ OptimParams(o)]

backward(w, deps) == [w EXCEPT !.has_grad = @ \cup (deps \cap RequiresGrad)]

\* Adam.step(): moves every parameter it owns that holds a gradient.
optim_step(w, o, g) ==
    Emit([w EXCEPT !.params =
              [p \in Groups |->
                  IF p \in OptimParams(o) \cap w.has_grad
                  THEN (w.params[p] + NumVals - g) % NumVals
                  ELSE w.params[p]]],
         [ev |-> "optim.step", optim |-> o])

add_scalar(w, tag, step) ==
    Emit([w EXCEPT !.writer[tag] = Append(@, step)],
         [ev |-> "add_scalar", tag |-> tag, step |-> step])

\* input.append(state, action) of the rolling history object: the last
\* NumSequences + 1 states and the last NumSequences actions.
Last(s, n) == IF Len(s) <= n THEN s ELSE SubSeq(s, Len(s) - n + 1, Len(s))

input_append(inp, state, action) ==
    [state |-> Last(Append(inp.state, state), NumSequences + 1),
     action |-> Last(Append(inp.action, action), NumSequences)]

\* ------------------------------------------------- action selection

preprocess(w) ==
    Emit(w, [ev |-> "preprocess", input |-> w.input, encoder |-> w.params["encoder"]])

explore(w, a) ==
    Emit(preprocess(w), [ev |-> "actor.sample", actor |-> w.params["actor"], ret |-> a])

exploit(w, a) ==
    Emit(preprocess(w), [ev |-> "actor.forward", actor |-> w.params["actor"], ret |-> a])

\* ------------------------------------------------------------- step

\* Mutant of Mask: the comparison made with the counter before its increment.
Mask_before_increment(t1, max_episode_steps, done) ==
    IF t1 - 1 = max_episode_steps THEN FALSE ELSE done

Mask(t1, max_episode_steps, done) ==
    IF t1 = max_episode_steps THEN FALSE ELSE done

select_action(w, is_random, a) ==
    IF is_random
    THEN Emit(w, [ev |-> "action_space.sample", ret |-> a])
    ELSE explore(w, a)

env_step(w, a, state, reward, done) ==
    Emit([w EXCEPT !.env.nstep = @ + 1],
         [ev |-> "env.step", action |-> a, state |-> state,
          reward |-> reward, done |-> done])

buffer_append(w, a, reward, mask, state, done) ==
    Emit([w EXCEPT !.buffer.nappend = @ + 1],
         [ev |-> "buffer.append", action |-> a, reward |-> reward,
          mask |-> mask, state |-> state, done |-> done])

\* Mutant of episode_reset: `state` is not rebound, so the buffer window is
\* reset with the state env.step returned.
episode_reset_stale_window(w, a, state, reset_state) ==
    LET w1 == Emit([w EXCEPT !.env.nreset = @ + 1],
                   [ev |-> "env.reset", state |-> reset_state])
        w2 == Emit([w1 EXCEPT !.input = input_append(@, reset_state, a)],
                   [ev |-> "input.append", state |-> reset_state, action |-> a])
    IN  Emit([w2 EXCEPT !.buffer.nreset = @ + 1],
             [ev |-> "buffer.reset_episode", state |-> state])

\* Mutant of episode_reset: the history object receives the state
\* env.step returned.
episode_reset_stale_input(w, a, state, reset_state) ==
    LET w1 == Emit([w EXCEPT !.env.nreset = @ + 1],
                   [ev |-> "env.reset", state |-> reset_state])
        w2 == Emit([w1 EXCEPT !.input = input_append(@, state, a)],
                   [ev |-> "input.append", state |-> state, action |-> a])
    IN  Emit([w2 EXCEPT !.buffer.nreset = @ + 1],
             [ev |-> "buffer.reset_episode", state |-> reset_state])

\* The body of `if done:` after t = 0. `state` is the local the code
\* rebinds to env.reset()'s result, `reset_state` that result.
episode_reset(w, a, state, reset_state) ==
    LET w1 == Emit([w EXCEPT !.env.nreset = @ + 1],
                   [ev |-> "env.reset", state |-> reset_state])
        w2 == Emit([w1 EXCEPT !.input = input_append(@, reset_state, a)],
                   [ev |-> "input.append", state |-> reset_state, action |-> a])
    IN  Emit([w2 EXCEPT !.buffer.nreset = @ + 1],
             [ev |-> "buffer.reset_episode", state |-> reset_state])

return_t(w, n) == Emit([w EXCEPT !.t = n], [ev |-> "return", t |-> n])

\* Mutant of step: the episode is reset before the transition is stored.
step_reset_before_append(w, is_random, a, state, reward, done, reset_state) ==
    LET t1 == w.t + 1
        w1 == select_action(w, is_random, a)
        w2 == env_step(w1, a, state, reward, done)
        mask == Mask(t1, w.env.max_episode_steps, done)
        w3 == IF done THEN episode_reset(w2, a, state, reset_state) ELSE w2
        w4 == buffer_append(w3, a, reward, mask, state, done)
    IN  return_t(w4, IF done THEN 0 ELSE t1)

step(w, is_random, a, state, reward, done, reset_state) ==
    LET t1 == w.t + 1
        w1 == select_action(w, is_random, a)
        w2 == env_step(w1, a, state, reward, done)
        mask == Mask(t1, w.env.max_episode_steps, done)
        w3 == buffer_append(w2, a, reward, mask, state, done)
    IN  IF done
        THEN return_t(episode_reset(w3, a, state, reset_state), 0)
        ELSE return_t(w3, t1)

\* ---------------------------------------------------- update_latent

\* Mutant of update_latent: the step is taken with the actor's optimizer.
update_latent_wrong_optimizer(w, post, pri, g) ==
    LET w1 == [w EXCEPT !.learning_steps_latent = @ + 1]
        w2 == Emit(w1, [ev |-> "buffer.sample_latent"])
        w3 == Emit(w2, [ev |-> "sample_post", mean |-> post.mean, std |-> post.std])
        w4 == Emit(w3, [ev |-> "sample_prior", mean |-> pri.mean, std |-> pri.std])
        w5 == Emit(w4, [ev |-> "kl_divergence",
                        args |-> <<post.mean, post.std, pri.mean, post.mean>>])
        w6 == optim_step(backward(zero_grad(w5, "optim_latent"), LossLatentDeps),
                         "optim_actor", g)
        n  == w6.learning_steps_latent
    IN  IF n % LogInterval = 0
        THEN add_scalar(add_scalar(add_scalar(w6, "loss/kld", n), "loss/reward", n),
                        "loss/image", n)
        ELSE w6

update_latent(w, post, pri, g) ==
    LET w1 == [w EXCEPT !.learning_steps_latent = @ + 1]
        w2 == Emit(w1, [ev |-> "buffer.sample_latent"])
        w3 == Emit(w2, [ev |-> "sample_post", mean |-> post.mean, std |-> post.std])
        w4 == Emit(w3, [ev |-> "sample_prior", mean |-> pri.mean, std |-> pri.std])
        w5 == Emit(w4, [ev |-> "kl_divergence",
                        args |-> <<post.mean, post.std, pri.mean, post.mean>>])
        w6 == optim_step(backward(zero_grad(w5, "optim_latent"), LossLatentDeps),
                         "optim_latent", g)
        n  == w6.learning_steps_latent
    IN  IF n % LogInterval = 0
        THEN add_scalar(add_scalar(add_scalar(w6, "loss/kld", n), "loss/reward", n),
                        "loss/image", n)
        ELSE w6

\* ------------------------------------------------------- update_sac

\* Mutant of update_critic: the scalar is written under the latent counter.
update_critic_wrong_counter(w, g) ==
    LET w1 == Emit(w, [ev |-> "td_target",
                       critic_target |-> w.params["critic_target"],
                       actor |-> w.params["actor"], alpha |-> w.alpha])
        w2 == optim_step(backward(zero_grad(w1, "optim_critic"), LossCriticDeps),
                         "optim_critic", g)
        n  == w2.learning_steps_sac
    IN  IF n % LogInterval = 0
        THEN add_scalar(w2, "loss/critic", w2.learning_steps_latent)
        ELSE w2

update_critic(w, g) ==
    LET w1 == Emit(w, [ev |-> "td_target",
                       critic_target |-> w.params["critic_target"],
                       actor |-> w.params["actor"], alpha |-> w.alpha])
        w2 == optim_step(backward(zero_grad(w1, "optim_critic"), LossCriticDeps),
                         "optim_critic", g)
        n  == w2.learning_steps_sac
    IN  IF n % LogInterval = 0
        THEN add_scalar(w2, "loss/critic", n)
        ELSE w2

\* Mutant of update_actor: alpha is not refreshed after the temperature step.
update_actor_no_refresh(w, ga, gl) ==
    LET w1 == Emit(w, [ev |-> "actor_loss", critic |-> w.params["critic"],
                       actor |-> w.params["actor"], alpha |-> w.alpha])
        w2 == optim_step(backward(zero_grad(w1, "optim_actor"), LossActorDeps),
                         "optim_actor", ga)
        w3 == optim_step(backward(zero_grad(w2, "optim_alpha"), LossAlphaDeps),
                         "optim_alpha", gl)
        w4 == Emit(w3, [ev |-> "alpha.refresh"])
        n  == w4.learning_steps_sac
    IN  IF n % LogInterval = 0
        THEN add_scalar(add_scalar(add_scalar(add_scalar(w4,
                 "loss/actor", n), "loss/alpha", n), "stats/alpha", n),
                 "stats/entropy", n)
        ELSE w4

update_actor(w, ga, gl) ==
    LET w1 == Emit(w, [ev |-> "actor_loss", critic |-> w.params["critic"],
                       actor |-> w.params["actor"], alpha |-> w.alpha])
        w2 == optim_step(backward(zero_grad(w1, "optim_actor"), LossActorDeps),
                         "optim_actor", ga)
        w3 == optim_step(backward(zero_grad(w2, "optim_alpha"), LossAlphaDeps),
                         "optim_alpha", gl)
        w4 == Emit([w3 EXCEPT !.alpha = Exp(w3.params["log_alpha"])],
                   [ev |-> "alpha.refresh"])
        n  == w4.learning_steps_sac
    IN  IF n % LogInterval = 0
        THEN add_scalar(add_scalar(add_scalar(add_scalar(w4,
                 "loss/actor", n), "loss/alpha", n), "stats/alpha", n),
                 "stats/entropy", n)
        ELSE w4

\* Mutant of update_sac: the actor is updated before the critic.
update_sac_actor_first(w, gc, ga, gl) ==
    LET w1 == [w EXCEPT !.learning_steps_sac = @ + 1]
        w2 == Emit(w1, [ev |-> "buffer.sample_sac"])
        w3 == update_actor(w2, ga, gl)
        w4 == update_critic(w3, gc)
    IN  Emit([w4 EXCEPT !.params["critic_target"] =
                  soft_update(@, w4.params["critic"], w4.tau)],
             [ev |-> "soft_update", target |-> w4.params["critic_target"],
              source |-> w4.params["critic"], tau |-> w4.tau])

\* Mutant of update_sac: the target is overwritten with the critic (tau = 1).
update_sac_hard_copy(w, gc, ga, gl) ==
    LET w1 == [w EXCEPT !.learning_steps_sac = @ + 1]
        w2 == Emit(w1, [ev |-> "buffer.sample_sac"])
        w3 == update_critic(w2, gc)
        w4 == update_actor(w3, ga, gl)
    IN  Emit([w4 EXCEPT !.params["critic_target"] =
                  soft_update(@, w4.params["critic"], TauDen)],
             [ev |-> "soft_update", target |-> w4.params["critic_target"],
              source |-> w4.params["critic"], tau |-> w4.tau])

update_sac(w, gc, ga, gl) ==
    LET w1 == [w EXCEPT !.learning_steps_sac = @ + 1]
        w2 == Emit(w1, [ev |-> "buffer.sample_sac"])
        w3 == update_critic(w2, gc)
        w4 == update_actor(w3, ga, gl)
    IN  Emit([w4 EXCEPT !.params["critic_target"] =
                  soft_update(@, w4.params["critic"], w4.tau)],
             [ev |-> "soft_update", target |-> w4.params["critic_target"],
              source |-> w4.params["critic"], tau |-> w4.tau])

\* ------------------------------------------------------- save_model

save_model(w) ==
    Emit([w EXCEPT !.disk =
              [f \in Files |->
                  CASE f = "encoder.pth" -> [p \in {"encoder"} |-> w.params[p]]
                    [] f = "latent.pth" -> [p \in LatentGroups |-> w.params[p]]
                    [] f = "actor.pth" -> [p \in {"actor"} |-> w.params[p]]
                    [] f = "critic.pth" -> [p \in {"critic"} |-> w.params[p]]]],
         [ev |-> "torch.save"])

\* ------------------------------------------------------ construction

\* Freshly constructed networks: every group gets its own pseudo-random
\* initial value.
InitParams ==
    [p \in Groups |->
        CASE p = "encoder" -> 0
          [] p = "dynamics" -> 1 % NumVals
          [] p = "decoder" -> 2 % NumVals
          [] p = "reward" -> 0
          [] p = "actor" -> 1 % NumVals
          [] p = "critic" -> 2 % NumVals
          [] p = "critic_target" -> 0
          [] p = "log_alpha" -> 0]

Constructed(tau0, max_steps) ==
    LET p0 == [InitParams EXCEPT !["critic_target"] =
                   soft_update(@, InitParams["critic"], TauDen)]
    IN  [params |-> p0,
         has_grad |-> {},
         alpha |-> Exp(p0["log_alpha"]),
         tau |-> tau0,
         learning_steps_sac |-> 0,
         learning_steps_latent |-> 0,
         writer |-> [tag \in Tags |-> <<>>],
         env |-> [max_episode_steps |-> max_steps, nstep |-> 0, nreset |-> 0],
         buffer |-> [nappend |-> 0, nreset |-> 0],
         input |-> [state |-> <<FirstObs>>, action |-> <<>>],
         t |-> 0,
         disk |-> [f \in {} |-> 0],
         op |-> "__init__",
         trace |-> <<[ev |-> "soft_update", target |-> InitParams["critic_target"],
                      source |-> InitParams["critic"], tau |-> TauDen]>>,
         ncalls |-> 0]

Holds(w) ==
    /\ params = w.params
    /\ has_grad = w.has_grad
    /\ alpha = w.alpha
    /\ tau = w.tau
    /\ learning_steps_sac = w.learning_steps_sac
    /\ learning_steps_latent = w.learning_steps_latent
    /\ writer = w.writer
    /\ env = w.env
    /\ buffer = w.buffer
    /\ input = w.input
    /\ t = w.t
    /\ disk = w.disk
    /\ op = w.op
    /\ trace = w.trace
    /\ ncalls = w.ncalls

Init ==
    \E tau0 \in 1 .. TauDen, max_steps \in 1 .. MaxEpisodeSteps :
        Holds(Constructed(tau0, max_steps))

\* ----------------------------------------------------------- actions

Step ==
    /\ ncalls < MaxCalls
    /\ \E is_random \in BOOLEAN, a \in Actions, state \in Obs, reward \in Rewards,
          done \in BOOLEAN, reset_state \in Obs :
          Commit(step(Begin("step"), is_random, a, state, reward, done, reset_state))

Explore ==
    /\ ncalls < MaxCalls
    /\ \E a \in Actions : Commit(explore(Begin("explore"), a))

Exploit ==
    /\ ncalls < MaxCalls
    /\ \E a \in Actions : Commit(exploit(Begin("exploit"), a))

UpdateLatent ==
    /\ ncalls < MaxCalls
    /\ \E post \in Gaussians, pri \in Gaussians, g \in GradDirs :
          Commit(update_latent(Begin("update_latent"), post, pri, g))

UpdateSac ==
    /\ ncalls < MaxCalls
    /\ \E gc \in GradDirs, ga \in GradDirs, gl \in GradDirs :
          Commit(update_sac(Begin("update_sac"), gc, ga, gl))

SaveModel ==
    /\ ncalls < MaxCalls
    /\ Commit(save_model(Begin("save_model")))

Next ==
    \/ Step
    \/ Explore
    \/ Exploit
    \/ UpdateLatent
    \/ UpdateSac
    \/ SaveModel

Spec == Init /\ [][Next]_vars

\* ------------------------------------------------------------------
\* The same operations, started late in training: the object as it is after
\* kl calls of update_latent and ks calls of update_sac (every gradient of
\* direction -1, tau = 1) followed by one save_model. ncalls counts the
\* operations from there on.

LogStarts == {LogInterval - 1, 2 * LogInterval - 1}

Emitted(n) == [i \in 1 .. (n \div LogInterval) |-> i * LogInterval]

Trained(kl, ks) ==
    LET c  == Constructed(TauDen, MaxEpisodeSteps)
        p1 == [p \in Groups |->
                  IF p \in LatentGroups THEN (c.params[p] + kl) % NumVals
                  ELSE IF p \in {"actor", "critic", "log_alpha"}
                       THEN (c.params[p] + ks) % NumVals
                  ELSE c.params[p]]
        p2 == [p1 EXCEPT !["critic_target"] = p1["critic"]]
    IN  save_model([c EXCEPT !.params = p2,
                             !.has_grad = RequiresGrad,
                             !.alpha = Exp(p2["log_alpha"]),
                             !.learning_steps_latent = kl,
                             !.learning_steps_sac = ks,
                             !.writer = [tag \in Tags |->
                                            IF tag \in LatentTags
                                            THEN Emitted(kl) ELSE Emitted(ks)],
                             !.op = "save_model",
                             !.trace = <<>>])

InitLog == \E kl \in LogStarts, ks \in LogStarts : Holds(Trained(kl, ks))

SpecLog == InitLog /\ [][Next]_vars

\* ------------------------------------------------------------------
\* Reading the trace of the operation that ran last.

Where(tr, name) == {i \in DOMAIN tr : tr[i].ev = name}

WhereStep(tr, o) == {i \in DOMAIN tr : tr[i].ev = "optim.step" /\ tr[i].optim = o}

Count(tr, name) == Cardinality(Where(tr, name))

One(tr, name) == tr[CHOOSE i \in Where(tr, name) : TRUE]

\* ------------------------------------------------------------------
\* Properties of step.

\* C1: in every call of step the mask handed to buffer.append is FALSE when
\* the environment reported done and the counter after its increment equals
\* env._max_episode_steps, and is the done flag in every other case.
C1_MaskRule ==
    [][op' = "step" =>
        /\ Count(trace', "env.step") = 1
        /\ Count(trace', "buffer.append") = 1
        /\ LET s == One(trace', "env.step")
               b == One(trace', "buffer.append")
           IN  b.mask = (IF s.done /\ t + 1 = env.max_episode_steps
                         THEN FALSE ELSE s.done)]_vars

\* A done transition at the episode limit was stored with mask FALSE.
C1_Witness ==
    /\ op = "step"
    /\ \E i \in Where(trace, "buffer.append") : trace[i].done /\ ~trace[i].mask

\* C3: a step whose transition is done returns 0, resets the environment
\* exactly once and resets the buffer window exactly once with the state that
\* reset returned; a step whose transition is not done returns t + 1 and
\* resets neither.
C3_DoneResets ==
    [][op' = "step" =>
        /\ Count(trace', "env.step") = 1
        /\ Count(trace', "return") = 1
        /\ t' = One(trace', "return").t
        /\ IF One(trace', "env.step").done
           THEN /\ t' = 0
                /\ Count(trace', "env.reset") = 1
                /\ env'.nreset = env.nreset + 1
                /\ Count(trace', "buffer.reset_episode") = 1
                /\ buffer'.nreset = buffer.nreset + 1
                /\ One(trace', "buffer.reset_episode").state
                       = One(trace', "env.reset").state
           ELSE /\ t' = t + 1
                /\ Count(trace', "env.reset") = 0
                /\ env'.nreset = env.nreset
                /\ Count(trace', "buffer.reset_episode") = 0
                /\ buffer'.nreset = buffer.nreset]_vars

\* A done step whose reset returned another state than the transition's.
C3_Witness ==
    /\ op = "step"
    /\ t = 0
    /\ \E i \in Where(trace, "env.step"), j \in Where(trace, "buffer.reset_episode") :
          trace[i].done /\ trace[i].state # trace[j].state

\* C9: every step advances the environment by one transition and appends
\* exactly that transition (action taken, reward, mask, resulting state, done)
\* to the buffer once, before any reset_episode of the same call; operations
\* other than step do neither, so appends and environment steps stay equal
\* in number.
C9_AppendOncePerStep ==
    /\ [](buffer.nappend = env.nstep)
    /\ [][IF op' = "step"
          THEN /\ Count(trace', "env.step") = 1
               /\ Count(trace', "buffer.append") = 1
               /\ env'.nstep = env.nstep + 1
               /\ buffer'.nappend = buffer.nappend + 1
               /\ LET s == One(trace', "env.step")
                      b == One(trace', "buffer.append")
                      chosen == {i \in DOMAIN trace' :
                                   trace'[i].ev \in {"action_space.sample", "actor.sample"}}
                  IN  /\ Cardinality(chosen) = 1
                      /\ \A i \in chosen : trace'[i].ret = s.action
                      /\ b.action = s.action
                      /\ b.reward = s.reward
                      /\ b.state = s.state
                      /\ b.done = s.done
                      /\ b.mask = Mask(t + 1, env.max_episode_steps, s.done)
               /\ \A i \in Where(trace', "env.step"), j \in Where(trace', "buffer.append") :
                     i < j
               /\ \A i \in Where(trace', "buffer.append"),
                        j \in Where(trace', "buffer.reset_episode") : i < j
          ELSE /\ env'.nstep = env.nstep
               /\ buffer'.nappend = buffer.nappend]_vars

\* A terminal transition was appended and the window then reset, in a run
\* that had stepped before.
C9_Witness ==
    /\ op = "step"
    /\ buffer.nappend = 2
    /\ \E i \in Where(trace, "buffer.append"), j \in Where(trace, "buffer.reset_episode") :
          trace[i].done /\ i < j

\* C10: step changes the history object only when the transition is done,
\* by one append of the state env.reset returned with the action just taken;
\* otherwise it leaves it unchanged; it reads it exactly when is_random is
\* false; the state env.step returned is never what it appends.
C10_InputOnlyOnDone ==
    [][op' = "step" =>
        /\ Count(trace', "env.step") = 1
        /\ LET s == One(trace', "env.step")
           IN  IF s.done
               THEN /\ Count(trace', "env.reset") = 1
                    /\ Count(trace', "input.append") = 1
                    /\ One(trace', "input.append").state = One(trace', "env.reset").state
                    /\ One(trace', "input.append").action = s.action
                    /\ input' = input_append(input, One(trace', "env.reset").state, s.action)
               ELSE /\ Count(trace', "input.append") = 0
                    /\ input' = input
        /\ Count(trace', "preprocess") = (IF Count(trace', "action_space.sample") = 1 THEN 0 ELSE 1)
        /\ \A i \in Where(trace', "preprocess") : trace'[i].input = input]_vars

\* A done step under the policy appended the reset state, which differed
\* from the state of the transition.
C10_Witness ==
    /\ op = "step"
    /\ Count(trace, "preprocess") = 1
    /\ \E i \in Where(trace, "env.step"), j \in Where(trace, "input.append") :
          /\ trace[i].done
          /\ trace[i].state # trace[j].state
          /\ input.state[Len(input.state)] = trace[j].state

\* ------------------------------------------------------------------
\* Properties of update_latent and update_sac.

Optimizers == {"optim_actor", "optim_critic", "optim_alpha", "optim_latent"}

StrictlyIncreasing(q) == \A i \in 1 .. (Len(q) - 1) : q[i] < q[i + 1]

OptimSteps(tr) == SelectSeq(tr, LAMBDA e : e.ev = "optim.step")

\* C2: every update_sac runs critic update, actor update (with the
\* temperature step), soft update, in that order and each once; the TD target
\* reads target network, actor and alpha as they were before the call, the
\* actor loss reads the critic this call has already updated, and the soft
\* update reads the updated critic.
C2_SacOrder ==
    [][op' = "update_sac" =>
        /\ Count(trace', "td_target") = 1
        /\ Count(trace', "actor_loss") = 1
        /\ Count(trace', "soft_update") = 1
        /\ [i \in DOMAIN OptimSteps(trace') |-> OptimSteps(trace')[i].optim]
              = <<"optim_critic", "optim_actor", "optim_alpha">>
        /\ \A a \in Where(trace', "td_target"), b \in WhereStep(trace', "optim_critic"),
              c \in Where(trace', "actor_loss"), d \in WhereStep(trace', "optim_actor"),
              e \in WhereStep(trace', "optim_alpha"), f \in Where(trace', "soft_update") :
              a < b /\ b < c /\ c < d /\ d < e /\ e < f /\ f = Len(trace')
        /\ LET td == One(trace', "td_target")
               al == One(trace', "actor_loss")
               su == One(trace', "soft_update")
           IN  /\ td.critic_target = params["critic_target"]
               /\ td.actor = params["actor"]
               /\ td.alpha = alpha
               /\ al.critic = params'["critic"]
               /\ al.actor = params["actor"]
               /\ su.source = params'["critic"]
               /\ su.target = params["critic_target"]]_vars

\* An update_sac ran whose TD target read a target network that the soft
\* update then changed.
C2_Witness ==
    /\ op = "update_sac"
    /\ Count(trace, "td_target") = 1
    /\ One(trace, "td_target").critic_target # params["critic_target"]

\* C4: the target critic equals the critic after construction (soft update
\* with tau = 1), is changed by update_sac to the Polyak average of its old
\* value and the updated critic, by one soft update that is the call's last
\* statement, is changed by no other operation, and belongs to no optimizer.
C4_TargetOnlyPolyak ==
    /\ [](op = "__init__" =>
            /\ params["critic_target"] = params["critic"]
            /\ Count(trace, "soft_update") = 1
            /\ One(trace, "soft_update").tau = TauDen)
    /\ [](\A o \in Optimizers : "critic_target" \notin OptimParams(o))
    /\ [][IF op' = "update_sac"
          THEN /\ Count(trace', "soft_update") = 1
               /\ trace'[Len(trace')].ev = "soft_update"
               /\ One(trace', "soft_update").tau = tau
               /\ params'["critic_target"]
                     = soft_update(params["critic_target"], params'["critic"], tau)
          ELSE /\ params'["critic_target"] = params["critic_target"]
               /\ Count(trace', "soft_update") = 0]_vars

\* After an update_sac with tau < 1 the target lies strictly between its
\* old value (the TD target's) and the critic.
C4_Witness ==
    /\ op = "update_sac"
    /\ tau < TauDen
    /\ params["critic_target"] # params["critic"]
    /\ params["critic_target"] # One(trace, "td_target").critic_target

\* C5: update_latent takes one optimizer step, with the latent optimizer,
\* and leaves actor, critic, target critic, log_alpha and alpha unchanged;
\* update_sac leaves every latent-model group unchanged and changes nothing
\* but critic, actor, log_alpha, alpha and target critic.
C5_DisjointGroups ==
    [][/\ op' = "update_latent" =>
            /\ Len(OptimSteps(trace')) = 1
            /\ OptimSteps(trace')[1].optim = "optim_latent"
            /\ OptimParams("optim_latent") = LatentGroups
            /\ \A p \in Groups \ LatentGroups : params'[p] = params[p]
            /\ alpha' = alpha
       /\ op' = "update_sac" =>
            /\ \A p \in LatentGroups : params'[p] = params[p]
            /\ \A i \in DOMAIN OptimSteps(trace') :
                  OptimParams(OptimSteps(trace')[i].optim) \cap LatentGroups = {}]_vars

\* An update_latent that moved the encoder, run after an update_sac had
\* moved the actor.
C5_Witness ==
    /\ op = "update_latent"
    /\ learning_steps_sac = 1
    /\ params["encoder"] # InitParams["encoder"]
    /\ params["actor"] # InitParams["actor"]
    /\ "actor" \in has_grad

\* C6: each update type has its own counter, incremented by one per call
\* of that type and by nothing else; a call writes its scalars exactly when
\* its counter, after the increment, is a multiple of LogInterval, with that
\* counter as step index; so the indices under each tag strictly increase.
C6_LogEveryInterval ==
    /\ [](\A tag \in Tags : StrictlyIncreasing(writer[tag]))
    /\ [][/\ learning_steps_latent'
              = learning_steps_latent + (IF op' = "update_latent" THEN 1 ELSE 0)
          /\ learning_steps_sac'
              = learning_steps_sac + (IF op' = "update_sac" THEN 1 ELSE 0)
          /\ \A tag \in LatentTags :
                writer'[tag] =
                   IF op' = "update_latent" /\ learning_steps_latent' % LogInterval = 0
                   THEN Append(writer[tag], learning_steps_latent')
                   ELSE writer[tag]
          /\ \A tag \in SacTags :
                writer'[tag] =
                   IF op' = "update_sac" /\ learning_steps_sac' % LogInterval = 0
                   THEN Append(writer[tag], learning_steps_sac')
                   ELSE writer[tag]]_vars

\* The second emission of the critic loss, at call 2 * LogInterval, while
\* the latent counter stands elsewhere.
C6_Witness ==
    /\ op = "update_sac"
    /\ writer["loss/critic"] = <<LogInterval, 2 * LogInterval>>
    /\ learning_steps_latent # learning_steps_sac

\* C7: the KL routine receives posterior mean, posterior std, prior mean
\* and prior std, in this order.
C7_KLPosteriorVsPrior ==
    op = "update_latent" =>
        /\ Count(trace, "kl_divergence") = 1
        /\ LET post == One(trace, "sample_post")
               pri == One(trace, "sample_prior")
           IN  One(trace, "kl_divergence").args
                  = <<post.mean, post.std, pri.mean, pri.std>>

\* C8: log_alpha is 0 and alpha 1 after construction; update_sac takes one
\* step of the temperature optimizer and then refreshes alpha; no other
\* operation changes log_alpha or alpha; alpha = exp(log_alpha) throughout.
C8_AlphaLifecycle ==
    /\ [](alpha = Exp(params["log_alpha"]))
    /\ [](op = "__init__" => params["log_alpha"] = 0 /\ alpha = 1)
    /\ [][IF op' = "update_sac"
          THEN /\ Cardinality(WhereStep(trace', "optim_alpha")) = 1
               /\ Count(trace', "alpha.refresh") = 1
               /\ \A i \in WhereStep(trace', "optim_alpha"),
                        j \in Where(trace', "alpha.refresh") : i < j
          ELSE /\ params'["log_alpha"] = params["log_alpha"]
               /\ alpha' = alpha]_vars

\* After two update_sac calls the temperature has left its initial value.
C8_Witness ==
    /\ op = "update_sac"
    /\ learning_steps_sac = 2
    /\ params["log_alpha"] # 0
    /\ alpha # 1

====
